---- MODULE Spec2Model ----
(***************************************************************************)
(* Model of the notebook 01_process_raw_data.ipynb: the three code cells   *)
(* "1. Fix data issues" (rounding loop), "2. Merge" and "3. Combine with   *)
(* topographic data", as one state machine over the files they read and    *)
(* write and the arrays they hold.                                         *)
(*                                                                         *)
(* Numbers.  A field of an .xyz text file is a token [m, d]: the decimal   *)
(* numeral with mantissa m and d digits after the point ("10.40" is        *)
(* [m |-> 1040, d |-> 2], "10" is [m |-> 10, d |-> 0]); d = -1 is an empty *)
(* field.  Array values are integers counting hundredths.  An array cell   *)
(* is [nan, v]: NaN (missing after mask_and_scale=True) or the value v.    *)
(*                                                                         *)
(* Geometry.  The canvas (bbox, res) is a single row of W pixels whose     *)
(* centres are the integer coordinates (0,0) .. (W-1,0); a tile covers the *)
(* lattice points its records name.  Resampling from the tiles' spacing to *)
(* the canvas' spacing is done inside merge_arrays and is not modelled.    *)
(***************************************************************************)
EXTENDS Integers, Sequences, FiniteSets, TLC

VARIABLES
    pc,        \* position in the notebook
    raw,       \* files of raw/*.xyz, in glob order (flist of cell 1)
    rounded,   \* files of rounded/: per file of flist, its repaired text or NoFile
    i,         \* index of the iteration of the current loop / comprehension
    handles,   \* indexes of the tiles whose DataArray (file handle) is open
    srcs,      \* the list srcs of cell 2
    bathy_ds,  \* the DataArray bathy_ds (cell 2, then cell 3)
    dem_ds,    \* the DataArray dem_ds (cell 3)
    ds,        \* the DataArray ds (cell 3)
    fs         \* the rasters at dem_path, bathy_path and merge_path

vars == <<pc, raw, rounded, i, handles, srcs, bathy_ds, dem_ds, ds, fs>>

----------------------------------------------------------------------------
(* Bounds of the model and constants of the program *)

MaxTiles == 2          \* at most this many files match raw/*.xyz
W == 2                 \* pixels of the canvas
no_data_val == -9999   \* cell "Properties for output mosaic"
cache == FALSE         \* open_rasterio(..., cache=False)

Pixels == { <<x, 0>> : x \in 0..(W - 1) }

----------------------------------------------------------------------------
(* Numerals of the text files *)

Tok(m, d) == [m |-> m, d |-> d]
EmptyField == Tok(0, -1)

RECURSIVE Pow10(_)
Pow10(n) == IF n <= 0 THEN 1 ELSE 10 * Pow10(n - 1)

\* astype(int) alone: the fraction is dropped
RoundTrunc(t) ==
    LET p == Pow10(t.d) IN
    IF t.m >= 0 THEN t.m \div p ELSE -((-t.m) \div p)

\* the integer above the floor
RoundUp(t) == (t.m \div Pow10(t.d)) + 1

\* pandas Series.round() (numpy.round): nearest integer, ties to the even one;
\* then astype(int).  t is a numeral with d >= 0.
Round(t) ==
    LET p == Pow10(t.d)
        q == t.m \div p          \* floor
        r == t.m - q * p         \* 0 <= r < p
    IN  IF 2 * r < p THEN q
        ELSE IF 2 * r > p THEN q + 1
        ELSE IF q % 2 = 0 THEN q ELSE q + 1

\* to_csv of a float64: the shortest repr, always with a decimal point
RECURSIVE ReprFloat(_)
ReprFloat(t) ==
    IF t.d < 0 THEN t                                  \* NaN is written as ""
    ELSE IF t.d = 0 THEN Tok(t.m * 10, 1)              \* 5 -> "5.0"
    ELSE IF t.d > 1 /\ t.m % 10 = 0 THEN ReprFloat(Tok(t.m \div 10, t.d - 1))
    ELSE t

\* to_csv of an int64
ReprInt(n) == Tok(n, 0)

\* read_csv infers int64 for a column in which every field is an integer
\* numeral, float64 otherwise (an empty field reads as NaN)
IsIntColumn(file, c) == \A k \in 1..Len(file) : file[k][c].d = 0

\* astype(int) raises on a column holding NaN
RepairRaises(file) ==
    \E k \in 1..Len(file) : file[k][1].d < 0 \/ file[k][2].d < 0

\* One iteration of the rounding loop: read_csv, round columns 0 and 1,
\* to_csv with header=False, index=False.  Column 2 is written back with the
\* dtype read_csv gave it.
RepairFile(file) ==
    [k \in 1..Len(file) |->
        << ReprInt(Round(file[k][1])),
           ReprInt(Round(file[k][2])),
           IF IsIntColumn(file, 3) THEN ReprInt(file[k][3].m)
                                   ELSE ReprFloat(file[k][3]) >>]

----------------------------------------------------------------------------
(* Arrays *)

NaN == [nan |-> TRUE, v |-> 0]
Val(x) == [nan |-> FALSE, v |-> x]

\* the value of a numeral, in hundredths (numerals of the model have d <= 2)
ToValue(t) == (t.m * 100) \div Pow10(t.d)

\* no_data_val, in hundredths
Sentinel == no_data_val * 100

NoArray == << >>
NoDs == [path |-> "unbound", mem |-> NoArray, cache |-> FALSE, nodata |-> NaN]

\* rasters on disk
Absent == [st |-> "absent"]
Partial == [st |-> "partial"]
Complete(data, nodata) == [st |-> "complete", data |-> data, nodata |-> nodata]

\* open_rasterio(fpath, mask_and_scale=True) of a rounded .xyz file, then
\* write_crs: the grid of the points of the file; a cell no record names is
\* missing.
Load(file) ==
    LET pts == { <<file[k][1].m, file[k][2].m>> : k \in 1..Len(file) }
        last(p) == CHOOSE k \in 1..Len(file) :
                      /\ <<file[k][1].m, file[k][2].m>> = p
                      /\ \A j \in 1..Len(file) :
                            <<file[j][1].m, file[j][2].m>> = p => j <= k
    IN  [pts |-> pts, val |-> [p \in pts |-> ToValue(file[last(p)][3])]]

\* what merge_arrays reads of a tile for the canvas (bounds=bbox, res=res)
ReadWindow(tile) ==
    [p \in Pixels |-> IF p \in tile.pts THEN Val(tile.val[p]) ELSE NaN]

\* open_rasterio(path, mask_and_scale=True, cache=...) of a raster: a lazy
\* DataArray; nothing is read yet
OpenRasterio(path, cached) ==
    [path |-> path, mem |-> NoArray, cache |-> cached, nodata |-> NaN]

\* mask_and_scale=True: a cell holding the file's nodata value reads as NaN
Decode(file) ==
    [p \in Pixels |-> IF file.data[p] = Val(file.nodata) THEN NaN
                                                       ELSE file.data[p]]

\* The array an access to da.data / da.values yields.  A DataArray built
\* from a numpy array (a merge result) yields that array.  A DataArray of
\* open_rasterio yields the decoded content of the file, read at the access.
Values(da, files) ==
    IF da.mem # NoArray THEN da.mem ELSE Decode(files[da.path])

----------------------------------------------------------------------------
(* merge_arrays: rasterio's merge with the copy function of the method *)

\* method="last": every tile overwrites
copy_last(dest, new) ==
    [p \in Pixels |-> IF ~new[p].nan THEN new[p] ELSE dest[p]]

\* method="first" (the default): copy where dest is still missing and the
\* new tile is not
copy_first(dest, new) ==
    [p \in Pixels |-> IF dest[p].nan /\ ~new[p].nan THEN new[p] ELSE dest[p]]

RECURSIVE MergeFrom(_, _, _)
MergeFrom(dest, inputs, k) ==
    IF k > Len(inputs) THEN dest
    ELSE MergeFrom(copy_first(dest, inputs[k]), inputs, k + 1)

\* inputs: what the merge reads of each DataArray, in the order of the list
merge_arrays(inputs) ==
    [path |-> "memory",
     mem |-> MergeFrom([p \in Pixels |-> NaN], inputs, 1),
     cache |-> FALSE,
     nodata |-> NaN]

----------------------------------------------------------------------------
(* Value transforms *)

\* no inversion
KeepSign(arr) == arr

\* bathy_ds.data = bathy_ds.data * -1   (NaN * -1 is NaN)
Invert(arr) ==
    [p \in Pixels |-> IF arr[p].nan THEN NaN ELSE Val(arr[p].v * (-1))]

\* a[a < 0] = 0 on an array a   (NaN < 0 is False)
FloorClip(arr) ==
    [p \in Pixels |-> IF ~arr[p].nan /\ arr[p].v < 0 THEN Val(0) ELSE arr[p]]

\* dem_ds.data[dem_ds.data < 0] = 0.  The assignment is an item assignment
\* on the array the access dem_ds.data yields.  With cache=True the first
\* access loads the file into the DataArray and yields that array, so the
\* assignment changes dem_ds.  With cache=False every access reads the file
\* into a new array, dem_ds keeps no reference to it, and the assignment
\* changes only that temporary.
ClipInPlace(da, files) ==
    LET loaded == IF da.mem = NoArray /\ da.cache
                  THEN [da EXCEPT !.mem = Decode(files[da.path])]
                  ELSE da
    IN  IF loaded.mem # NoArray
        THEN [loaded EXCEPT !.mem = FloorClip(loaded.mem)]
        ELSE loaded

----------------------------------------------------------------------------
(* Raster Writer *)

\* rio.write_nodata(v, inplace=True): encoded defaults to False, so v is
\* recorded as the attribute _FillValue; the array is not touched
write_nodata(da, v) == [da EXCEPT !.nodata = Val(v)]

\* to_raster, completed: the nodata attribute goes to the file's metadata
\* and the array is stored as it is (NaN cells are filled only with an
\* encoded _FillValue, which write_nodata(encoded=False) does not set)
to_raster(da) == Complete(da.mem, da.nodata.v)

\* a cleanup that removes the file
RemovePartial(file) == Absent

\* what a failed to_raster leaves at the path: nothing removes the file
\* that rasterio.open(path, "w") created
AfterWriteFailure(file) == file

----------------------------------------------------------------------------
(* Inputs *)

\* raw tiles: records <<x, y, z>> of numerals, as Kartverket ships them
RawTiles ==
    { \* 0.4 0.2 5 / 1.4 0.2 7 : z is an integer column
      << <<Tok(4, 1), Tok(2, 1), Tok(5, 0)>>,
         <<Tok(14, 1), Tok(2, 1), Tok(7, 0)>> >>,
      \* 0.5 0 6.10 / 1 0.0 0 : a tie, a z with a trailing zero, a depth of 0
      << <<Tok(5, 1), Tok(0, 0), Tok(610, 2)>>,
         <<Tok(1, 0), Tok(0, 1), Tok(0, 0)>> >>,
      \* 1.5 -0.5 8.0 / 0.6 0.4 3 : ties, a negative coordinate
      << <<Tok(15, 1), Tok(-5, 1), Tok(80, 1)>>,
         <<Tok(6, 1), Tok(4, 1), Tok(3, 0)>> >>,
      \* 10.4 20.6 9 : a tile outside the canvas
      << <<Tok(104, 1), Tok(206, 1), Tok(9, 0)>> >>,
      \* -0.5 0 2.50 / 2.5 0.49 1.25
      << <<Tok(-5, 1), Tok(0, 0), Tok(250, 2)>>,
         <<Tok(25, 1), Tok(49, 2), Tok(125, 2)>> >>,
      \* 0.45 0 4.0 : one point
      << <<Tok(45, 2), Tok(0, 0), Tok(40, 1)>> >>,
      \* 0.4 0 5 / (empty) 0 5 : a record without x
      << <<Tok(4, 1), Tok(0, 0), Tok(5, 0)>>,
         <<EmptyField, Tok(0, 0), Tok(5, 0)>> >> }

RECURSIVE SeqsUpTo(_, _)
SeqsUpTo(S, n) ==
    IF n = 0 THEN { << >> }
    ELSE LET shorter == SeqsUpTo(S, n - 1)
         IN  shorter \cup { Append(q, e) : q \in shorter, e \in S }

\* the pre-existing topographic raster: heights -2 and 3, or nodata
DemFiles ==
    { Complete(a, Sentinel) :
        a \in [Pixels -> {Val(-200), Val(300), Val(Sentinel)}] }

\* an output of an earlier run of the notebook
OldFile == Complete([p \in Pixels |-> Val(100)], Sentinel)

NoFile == << >>

Init ==
    /\ pc = "repair"
    /\ raw \in (SeqsUpTo(RawTiles, MaxTiles) \ { << >> })
    /\ rounded = [k \in 1..Len(raw) |-> NoFile]
    /\ i = 1
    /\ handles = {}
    /\ srcs = << >>
    /\ bathy_ds = NoDs
    /\ dem_ds = NoDs
    /\ ds = NoDs
    /\ \E dem \in DemFiles, prev \in {Absent, OldFile} :
          fs = [dem_path |-> dem, bathy_path |-> prev, merge_path |-> prev]

----------------------------------------------------------------------------
(* Cell "1. Fix data issues": for fpath in flist *)

\* an exception of iteration k is caught and the loop goes on
ContinueAfterError(k) == [pc |-> "repair", i |-> k + 1]

\* an exception of iteration k is not caught: it ends the cell
AfterRepairError(k) == [pc |-> "failed_repair", i |-> k]

\* where the loop over flist goes after iteration k
AfterIteration(k, n, next) ==
    IF k < n THEN [pc |-> pc, i |-> k + 1] ELSE [pc |-> next, i |-> 1]

RepairTile ==
    /\ pc = "repair"
    /\ i <= Len(raw)
    /\ ~RepairRaises(raw[i])
    /\ rounded' = [rounded EXCEPT ![i] = RepairFile(raw[i])]
    /\ LET to == AfterIteration(i, Len(raw), "open")
       IN  pc' = to.pc /\ i' = to.i
    /\ UNCHANGED <<raw, handles, srcs, bathy_ds, dem_ds, ds, fs>>

RepairError ==
    /\ pc = "repair"
    /\ i <= Len(raw)
    /\ RepairRaises(raw[i])
    /\ LET to == AfterRepairError(i)
       IN  pc' = to.pc /\ i' = to.i
    /\ UNCHANGED <<raw, rounded, handles, srcs, bathy_ds, dem_ds, ds, fs>>

----------------------------------------------------------------------------
(* Cell "2. Merge" *)

\* srcs = [rio.open_rasterio(fpath, ...) for fpath in flist], one file per
\* step, and write_crs on it; every DataArray stays open in srcs
OpenTile ==
    /\ pc = "open"
    /\ i <= Len(rounded)
    /\ srcs' = Append(srcs, Load(rounded[i]))
    /\ handles' = handles \cup {i}
    /\ LET to == AfterIteration(i, Len(rounded), "merge")
       IN  pc' = to.pc /\ i' = to.i
    /\ UNCHANGED <<raw, rounded, bathy_ds, dem_ds, ds, fs>>

\* bathy_ds = merge_arrays(srcs, bounds=bbox, res=res, crs=...)
MergeTiles ==
    /\ pc = "merge"
    /\ bathy_ds' = merge_arrays([k \in 1..Len(srcs) |-> ReadWindow(srcs[k])])
    /\ pc' = "invert"
    /\ UNCHANGED <<raw, rounded, i, handles, srcs, dem_ds, ds, fs>>

\* bathy_ds.data = bathy_ds.data * -1
InvertBathy ==
    /\ pc = "invert"
    /\ bathy_ds' = [bathy_ds EXCEPT !.mem = Invert(bathy_ds.mem)]
    /\ pc' = "save_bathy"
    /\ UNCHANGED <<raw, rounded, i, handles, srcs, dem_ds, ds, fs>>

\* write_nodata, write_crs, and to_raster up to rasterio.open(bathy_path,
\* "w"), which creates the file in place of what was there
StartWriteBathy ==
    /\ pc = "save_bathy"
    /\ bathy_ds' = write_nodata(bathy_ds, Sentinel)
    /\ fs' = [fs EXCEPT !.bathy_path = Partial]
    /\ pc' = "writing_bathy"
    /\ UNCHANGED <<raw, rounded, i, handles, srcs, dem_ds, ds>>

\* to_raster writes the blocks and closes the file
FinishWriteBathy ==
    /\ pc = "writing_bathy"
    /\ fs' = [fs EXCEPT !.bathy_path = to_raster(bathy_ds)]
    /\ pc' = "close_srcs"
    /\ UNCHANGED <<raw, rounded, i, handles, srcs, bathy_ds, dem_ds, ds>>

\* to_raster raises while writing (disk full): the cell ends
FailWriteBathy ==
    /\ pc = "writing_bathy"
    /\ fs' = [fs EXCEPT !.bathy_path = AfterWriteFailure(fs.bathy_path)]
    /\ pc' = "failed_write_bathy"
    /\ UNCHANGED <<raw, rounded, i, handles, srcs, bathy_ds, dem_ds, ds>>

\* one DataArray is left open
KeepOneOpen(open) == IF open = {} THEN {} ELSE {CHOOSE k \in open : TRUE}

\* srcs = [src.close() for src in srcs]: the handles left open
CloseAll(open) == {}

\* srcs = [src.close() ...]; bathy_ds.close(); del srcs, bathy_ds
CloseTiles ==
    /\ pc = "close_srcs"
    /\ handles' = CloseAll(handles)
    /\ srcs' = << >>
    /\ bathy_ds' = NoDs
    /\ pc' = "read"
    /\ UNCHANGED <<raw, rounded, i, dem_ds, ds, fs>>

----------------------------------------------------------------------------
(* Cell "3. Combine with topographic data" *)

\* bathy_ds = open_rasterio(bathy_path, ...); dem_ds = open_rasterio(dem_path, ...)
ReadRasters ==
    /\ pc = "read"
    /\ bathy_ds' = OpenRasterio("bathy_path", cache)
    /\ dem_ds' = OpenRasterio("dem_path", cache)
    /\ pc' = "clip"
    /\ UNCHANGED <<raw, rounded, i, handles, srcs, ds, fs>>

\* dem_ds.data[dem_ds.data < 0] = 0
ClipDem ==
    /\ pc = "clip"
    /\ dem_ds' = ClipInPlace(dem_ds, fs)
    /\ pc' = "combine"
    /\ UNCHANGED <<raw, rounded, i, handles, srcs, bathy_ds, ds, fs>>

\* ds = merge_arrays([bathy_ds, dem_ds], method="first", ...); both inputs
\* are closed and deleted
Combine ==
    /\ pc = "combine"
    /\ ds' = merge_arrays(<<Values(bathy_ds, fs), Values(dem_ds, fs)>>)
    /\ bathy_ds' = NoDs
    /\ dem_ds' = NoDs
    /\ pc' = "save"
    /\ UNCHANGED <<raw, rounded, i, handles, srcs, fs>>

StartWriteFinal ==
    /\ pc = "save"
    /\ ds' = write_nodata(ds, Sentinel)
    /\ fs' = [fs EXCEPT !.merge_path = Partial]
    /\ pc' = "writing"
    /\ UNCHANGED <<raw, rounded, i, handles, srcs, bathy_ds, dem_ds>>

\* to_raster completes; ds.close(); del ds
FinishWriteFinal ==
    /\ pc = "writing"
    /\ fs' = [fs EXCEPT !.merge_path = to_raster(ds)]
    /\ ds' = NoDs
    /\ pc' = "done"
    /\ UNCHANGED <<raw, rounded, i, handles, srcs, bathy_ds, dem_ds>>

FailWriteFinal ==
    /\ pc = "writing"
    /\ fs' = [fs EXCEPT !.merge_path = AfterWriteFailure(fs.merge_path)]
    /\ pc' = "failed_write"
    /\ UNCHANGED <<raw, rounded, i, handles, srcs, bathy_ds, dem_ds, ds>>

Next ==
    \/ RepairTile
    \/ RepairError
    \/ OpenTile
    \/ MergeTiles
    \/ InvertBathy
    \/ StartWriteBathy
    \/ FinishWriteBathy
    \/ FailWriteBathy
    \/ CloseTiles
    \/ ReadRasters
    \/ ClipDem
    \/ Combine
    \/ StartWriteFinal
    \/ FinishWriteFinal
    \/ FailWriteFinal

Spec == Init /\ [][Next]_vars

----------------------------------------------------------------------------
(* Notions the properties are stated with *)

\* the cell of the first array of the list that is not missing at p
FirstValid(inputs, p) ==
    LET valid == { k \in 1..Len(inputs) : ~inputs[k][p].nan }
    IN  IF valid = {} THEN NaN
        ELSE inputs[CHOOSE k \in valid : \A j \in valid : k <= j][p]

\* what the tiles of srcs hold on the canvas
TileInputs == [k \in 1..Len(srcs) |-> ReadWindow(srcs[k])]

\* the merged depth of the repaired tiles on disk, first tile first
MergedDepth(p) ==
    FirstValid([k \in 1..Len(rounded) |-> ReadWindow(Load(rounded[k]))], p)

\* a cell with values below zero set to zero
Clipped(c) == IF ~c.nan /\ c.v < 0 THEN Val(0) ELSE c

\* n is an integer nearest to the numeral t
IsNearest(n, t) ==
    LET p == Pow10(t.d)
        diff == n * p - t.m
    IN  2 * (IF diff < 0 THEN -diff ELSE diff) <= p

\* the numerals a and b denote the same number
SameNumber(a, b) == a.m * Pow10(b.d) = b.m * Pow10(a.d)

AfterMerge == {"invert", "save_bathy", "writing_bathy", "close_srcs",
               "failed_write_bathy"}
Cell3 == {"read", "clip", "combine", "save", "writing", "done", "failed_write"}

----------------------------------------------------------------------------
(* Properties *)

\* C1: right after the merge of the tiles, every pixel of the mosaic holds
\* the value of the first tile of srcs that is not missing there, and is
\* missing when no tile has a value there.
C1_FirstWins ==
    pc = "invert" =>
        \A p \in Pixels : bathy_ds.mem[p] = FirstValid(TileInputs, p)

\* two tiles with different values at one pixel, and a pixel no tile covers
C1_Witness ==
    /\ pc = "invert"
    /\ Len(srcs) = 2
    /\ \E p \in Pixels :
          /\ ~TileInputs[1][p].nan /\ ~TileInputs[2][p].nan
          /\ TileInputs[1][p] # TileInputs[2][p]
          /\ bathy_ds.mem[p] = TileInputs[1][p]
    /\ \E p \in Pixels :
          /\ TileInputs[1][p].nan /\ TileInputs[2][p].nan
          /\ bathy_ds.mem[p].nan

\* C3: a repaired tile has the records of the raw tile, in the same order,
\* with x and y replaced by a nearest integer and z denoting the same
\* number; the record 10.4 20.6 z becomes 10 21 z.
C3_RepairRounds ==
    \A k \in 1..Len(raw) :
        rounded[k] # NoFile =>
            /\ Len(rounded[k]) = Len(raw[k])
            /\ \A r \in 1..Len(raw[k]) :
                  /\ rounded[k][r][1].d = 0
                  /\ rounded[k][r][2].d = 0
                  /\ IsNearest(rounded[k][r][1].m, raw[k][r][1])
                  /\ IsNearest(rounded[k][r][2].m, raw[k][r][2])
                  /\ SameNumber(rounded[k][r][3], raw[k][r][3])
                  /\ (raw[k][r][1] = Tok(104, 1) /\ raw[k][r][2] = Tok(206, 1)
                        => /\ rounded[k][r][1] = Tok(10, 0)
                           /\ rounded[k][r][2] = Tok(21, 0))

\* the record 10.4 20.6 9 has been repaired to 10 21 9
C3_Witness ==
    \E k \in 1..Len(raw) :
        /\ raw[k] = << <<Tok(104, 1), Tok(206, 1), Tok(9, 0)>> >>
        /\ rounded[k] = << <<Tok(10, 0), Tok(21, 0), Tok(9, 0)>> >>

\* C4: repairing a repaired tile does not fail and writes the same text.
C4_RepairIdempotent ==
    \A k \in 1..Len(raw) :
        rounded[k] # NoFile =>
            /\ ~RepairRaises(rounded[k])
            /\ RepairFile(rounded[k]) = rounded[k]

\* a repaired tile whose text differs from the raw text in x and in z
\* (0.5 0 6.10 became 0 0 6.1), and which a second repair leaves alone
C4_Witness ==
    \E k \in 1..Len(raw) :
        /\ raw[k][1] = <<Tok(5, 1), Tok(0, 0), Tok(610, 2)>>
        /\ rounded[k] # NoFile
        /\ rounded[k][1] = <<Tok(0, 0), Tok(0, 0), Tok(61, 1)>>
        /\ RepairFile(rounded[k]) = rounded[k]

\* C10: in the final raster, a pixel with a merged depth holds -1 times that
\* depth; the bathymetry mosaic read back is missing exactly where the merged
\* depth is missing; a pixel filled from the topography does not hold the
\* negated topography value.
C10_InvertedOnce ==
    pc = "done" =>
        \A p \in Pixels :
            LET depth == MergedDepth(p)
                bathy == Decode(fs.bathy_path)[p]
                topo == Decode(fs.dem_path)[p]
                final == fs.merge_path.data[p]
            IN  /\ bathy.nan = depth.nan
                /\ ~depth.nan => final = Val(-1 * depth.v)
                /\ (depth.nan /\ ~topo.nan /\ topo.v # 0) => final # Val(-1 * topo.v)

\* a run that ended with a pixel holding a negated depth and a pixel filled
\* from the topography
C10_Witness ==
    /\ pc = "done"
    /\ \E p \in Pixels :
          /\ ~MergedDepth(p).nan /\ MergedDepth(p).v > 0
          /\ fs.merge_path.data[p] = Val(-1 * MergedDepth(p).v)
    /\ \E p \in Pixels :
          /\ MergedDepth(p).nan
          /\ ~Decode(fs.dem_path)[p].nan
          /\ fs.merge_path.data[p] = Decode(fs.dem_path)[p]

\* C2 (as claimed): the composite holds the bathymetry value where the
\* bathymetry is not missing, else the floor-clipped topography value where
\* the topography is not missing, else it is missing.
C2_PriorityOverClipped ==
    pc = "save" =>
        \A p \in Pixels :
            LET bathy == Decode(fs.bathy_path)[p]
                topo == Decode(fs.dem_path)[p]
            IN  ds.mem[p] = IF ~bathy.nan THEN bathy
                            ELSE IF ~topo.nan THEN Clipped(topo)
                            ELSE NaN

\* C5 (as claimed): what the compositor reads of the topography is the
\* topography of the file with every value below zero set to zero and every
\* other cell unchanged, and clipping it again changes nothing.
C5_ClippedBeforeCompositing ==
    pc = "combine" =>
        /\ \A p \in Pixels :
              Values(dem_ds, fs)[p] = Clipped(Decode(fs.dem_path)[p])
        /\ FloorClip(FloorClip(Decode(fs.dem_path))) = FloorClip(Decode(fs.dem_path))

\* a written raster records the sentinel in its metadata, holds the
\* sentinel, never NaN, in the cells of `missing`, and in no other cell
SentinelMarksMissing(file, missing) ==
    /\ file.nodata = Sentinel
    /\ \A p \in Pixels :
          /\ ~file.data[p].nan
          /\ p \in missing <=> file.data[p] = Val(Sentinel)

\* C8 (as claimed): both written rasters mark their missing pixels with the
\* sentinel no_data_val, in the array and in the metadata.
C8_SentinelInWrittenRasters ==
    /\ pc \in (Cell3 \cup {"close_srcs"}) =>
          SentinelMarksMissing(fs.bathy_path,
                               { p \in Pixels : MergedDepth(p).nan })
    /\ pc = "done" =>
          SentinelMarksMissing(fs.merge_path,
                               { p \in Pixels : /\ MergedDepth(p).nan
                                                /\ Decode(fs.dem_path)[p].nan })

\* C6 (as claimed): once the rounding loop is over, every raw tile whose
\* repair does not fail has been repaired, whichever tiles failed.
C6_FailuresIsolated ==
    pc # "repair" =>
        \A k \in 1..Len(raw) : ~RepairRaises(raw[k]) => rounded[k] # NoFile

\* C6 (amended): an error in the repair of a tile ends the loop: the tiles
\* before it are repaired, neither it nor any tile after it is, and the
\* cells that follow do not run.
C6_FailureEndsLoop ==
    /\ \A j \in 1..Len(raw) :
          RepairRaises(raw[j]) =>
              /\ \A k \in j..Len(raw) : rounded[k] = NoFile
              /\ pc \in {"repair", "failed_repair"}
    /\ pc = "failed_repair" =>
          /\ RepairRaises(raw[i])
          /\ \A k \in 1..(i - 1) : rounded[k] # NoFile

\* the first tile failed and the second, which has no defect, has no
\* repaired file
C6_Witness ==
    /\ pc = "failed_repair"
    /\ i = 1
    /\ Len(raw) = 2
    /\ ~RepairRaises(raw[2])
    /\ rounded[2] = NoFile

C9_HandlesScoped ==
    /\ Cardinality(handles) <= 1
    /\ pc \in (AfterMerge \cup Cell3) => handles = {}

\* C9 (amended): the tiles are opened one after the other and all stay
\* open through the merge, the inversion and the write of the mosaic; they
\* are closed together after the write, and none is open in the next cell.
C9_HandlesHeldUntilWritten ==
    /\ pc = "open" => handles = 1..(i - 1)
    /\ pc \in ({"merge"} \cup AfterMerge) => handles = 1..Len(raw)
    /\ pc \in Cell3 => handles = {}

\* two tiles are open while the mosaic is being written
C9_Witness ==
    /\ pc = "writing_bathy"
    /\ Cardinality(handles) = 2

====
